---- MODULE Spec2Model ----
(***************************************************************************)
(* Model of makepass: src/main.rs (Opt, run, adjusted_entropy),            *)
(* src/password.rs (PasswordRules, Password), src/util.rs (Bounds) and     *)
(* src/wordlists.rs (WordlistStorage::as_wordlist).                        *)
(*                                                                         *)
(* Strings are sequences of Unicode code points; their byte length is the  *)
(* length of their UTF-8 encoding.  Option<T> is a record with a field     *)
(* `some`; the field `val` is read only when `some` is TRUE.               *)
(* f32 logarithms are not computed: an entropy figure is represented by    *)
(* the arguments handed to log2.                                           *)
(***************************************************************************)
EXTENDS Integers, Sequences, FiniteSets, TLC

VARIABLES
    opts,               \* the parsed command line (struct Opt)
    wordlist_storage,   \* WordlistStorage selected by opts.wordlist
    pc,                 \* position inside run()
    wordlist,           \* wordlist_storage.as_wordlist()
    word_bounds,        \* Option<Bounds>: result of opts.word_length_bounds()
    filtered_wordlist,  \* Vec::from_iter(filtered_wordlist)
    password_rules,     \* Option<PasswordRules>: None until constructed
    password_bounds,    \* Option<Bounds>: result of opts.length_bounds()
    drawn,              \* number of gen_password calls made through the stream
    lens,               \* byte length of every candidate drawn, in draw order
    final_password,     \* Option<Password>
    counted,            \* accumulator of password_stream.count()
    success_size,       \* Option<usize>
    entropy,            \* results of the entropy functions
    resolved,           \* result of a bounds resolver (Ok(Bounds) or Err)
    stdout,             \* bytes written to standard output
    exit_code           \* Option<i32>: process result

vars == <<opts, wordlist_storage, pc, wordlist, word_bounds, filtered_wordlist,
          password_rules, password_bounds, drawn, lens, final_password,
          counted, success_size, entropy, resolved, stdout, exit_code>>

----------------------------------------------------------------------------
(* Bounds of the model                                                     *)

MaxChunks == 2         \* pieces of text in a wordlist read from stdin
MaxWordCount == 2      \* --word-count
MaxSampleSize == 3     \* --sample-size
MaxBound == 25         \* largest user-supplied min/max in the resolver runs
MaxPool == 2           \* pool size in the rule-engine runs
MaxNumWords == 3       \* num_words in the rule-engine runs

(* Program constants                                                       *)

USIZE_MAX == 2147483647   \* std::usize::MAX (only ever compared)
DEFAULT_MIN_LENGTH == 24
DEFAULT_MIN_WORD == 4
DEFAULT_MAX_WORD == 8
NUMERAL_HIGH == 10        \* rng.gen_range(0, 10)

----------------------------------------------------------------------------
(* Option<T>                                                               *)

None == [some |-> FALSE]
Some(v) == [some |-> TRUE, val |-> v]

Min(a, b) == IF a <= b THEN a ELSE b
Max(a, b) == IF a >= b THEN a ELSE b

RECURSIVE SumSeq(_)
SumSeq(s) == IF s = <<>> THEN 0 ELSE Head(s) + SumSeq(Tail(s))

RECURSIVE Concat(_)
Concat(ss) == IF ss = <<>> THEN <<>> ELSE Head(ss) \o Concat(Tail(ss))

Range(s) == {s[i] : i \in DOMAIN s}

(* All sequences over S of length at most n                                *)
SeqsUpTo(S, n) == UNION {[1..k -> S] : k \in 0..n}

----------------------------------------------------------------------------
(* Strings: code points and their UTF-8 encoding                           *)

\* char::len_utf8
len_utf8(c) ==
    IF c < 128 THEN 1
    ELSE IF c < 2048 THEN 2
    ELSE IF c < 65536 THEN 3
    ELSE 4

\* the bytes char's Display writes (UTF-8 encoding of one code point)
EncodeUtf8(c) ==
    IF c < 128 THEN <<c>>
    ELSE IF c < 2048 THEN <<192 + (c \div 64), 128 + (c % 64)>>
    ELSE IF c < 65536 THEN
        <<224 + (c \div 4096), 128 + ((c \div 64) % 64), 128 + (c % 64)>>
    ELSE <<240 + (c \div 262144), 128 + ((c \div 4096) % 64),
           128 + ((c \div 64) % 64), 128 + (c % 64)>>

\* the bytes of a str
StrBytes(s) == Concat([i \in DOMAIN s |-> EncodeUtf8(s[i])])

\* impl Len for str: str::len, the number of bytes
StrLen(s) == Len(StrBytes(s))

\* u8's Display: decimal digits
FmtU8(n) ==
    IF n < 10 THEN <<48 + n>>
    ELSE IF n < 100 THEN <<48 + (n \div 10), 48 + (n % 10)>>
    ELSE <<48 + (n \div 100), 48 + ((n \div 10) % 10), 48 + (n % 10)>>

IsWhitespace(c) == c \in {9, 10, 11, 12, 13, 32, 133, 160}

RECURSIVE TrimStart(_)
TrimStart(s) ==
    IF s # <<>> /\ IsWhitespace(Head(s)) THEN TrimStart(Tail(s)) ELSE s

RECURSIVE TrimEnd(_)
TrimEnd(s) ==
    IF s # <<>> /\ IsWhitespace(s[Len(s)])
    THEN TrimEnd(SubSeq(s, 1, Len(s) - 1)) ELSE s

\* str::trim
Trim(s) == TrimEnd(TrimStart(s))

\* str::lines: split at '\n', a final empty piece is dropped, a trailing
\* '\r' of a line is dropped
RECURSIVE SplitLines(_, _)
SplitLines(s, cur) ==
    IF s = <<>> THEN (IF cur = <<>> THEN <<>> ELSE <<cur>>)
    ELSE IF Head(s) = 10
         THEN <<(IF cur # <<>> /\ cur[Len(cur)] = 13
                 THEN SubSeq(cur, 1, Len(cur) - 1) ELSE cur)>>
              \o SplitLines(Tail(s), <<>>)
         ELSE SplitLines(Tail(s), Append(cur, Head(s)))

StrLines(blob) == SplitLines(blob, <<>>)

\* Iterator::take
Take(s, n) == SubSeq(s, 1, Min(n, Len(s)))

----------------------------------------------------------------------------
(* src/util.rs: Bounds                                                     *)

Bounds(mn, mx) == [min |-> mn, max |-> mx]

\* check with the upper end taken as exclusive
check_ExclusiveMax(bounds, value) ==
    IF value < bounds.min THEN "TooLow"
    ELSE IF value >= bounds.max THEN "TooHigh"
    ELSE "Ok"

\* Bounds::check: Ok unless value < min (TooLow) or value > max (TooHigh)
check(bounds, value) ==
    IF value < bounds.min THEN "TooLow"
    ELSE IF value > bounds.max THEN "TooHigh"
    ELSE "Ok"

\* Bounds::check_len(thing).is_ok() for a thing of byte length len
check_len_is_ok(bounds, len) == check(bounds, len) = "Ok"

\* the text written by write!(f, template, args..)
Phrase(template, args) == [phrase |-> template, args |-> args]

\* DisplayBounds::fmt with the "exactly" arm tried last
DisplayBoundsFmt_ExactlyLast(bounds) ==
    IF bounds.min \in {0, 1} /\ bounds.max = USIZE_MAX
        THEN Phrase("any number of", <<>>)
    ELSE IF bounds.min \in {0, 1}
        THEN Phrase("up to {}", <<bounds.max>>)
    ELSE IF bounds.max = USIZE_MAX
        THEN Phrase("at least {}", <<bounds.min>>)
    ELSE IF bounds.min = bounds.max
        THEN Phrase("exactly {}", <<bounds.min>>)
    ELSE Phrase("between {} and {}", <<bounds.min, bounds.max>>)

\* impl Display for DisplayBounds: the match arms in their order
DisplayBoundsFmt(bounds) ==
    IF bounds.min = bounds.max
        THEN Phrase("exactly {}", <<bounds.min>>)
    ELSE IF bounds.min \in {0, 1} /\ bounds.max = USIZE_MAX
        THEN Phrase("any number of", <<>>)
    ELSE IF bounds.min \in {0, 1}
        THEN Phrase("up to {}", <<bounds.max>>)
    ELSE IF bounds.max = USIZE_MAX
        THEN Phrase("at least {}", <<bounds.min>>)
    ELSE Phrase("between {} and {}", <<bounds.min, bounds.max>>)

----------------------------------------------------------------------------
(* src/main.rs: Opt                                                        *)

Ok(b) == [ok |-> TRUE, bounds |-> b]
InvalidBoundsError(mn, mx) == [ok |-> FALSE, min |-> mn, max |-> mx]

\* length_bounds rejecting min = max as well
length_bounds_RejectsEqual(o) ==
    IF ~o.min_length.some /\ ~o.max_length.some
        THEN Ok(Bounds(DEFAULT_MIN_LENGTH, USIZE_MAX))
    ELSE IF o.min_length.some /\ ~o.max_length.some
        THEN Ok(Bounds(o.min_length.val, USIZE_MAX))
    ELSE IF ~o.min_length.some /\ o.max_length.some
        THEN Ok(Bounds(Min(DEFAULT_MIN_LENGTH, o.max_length.val), o.max_length.val))
    ELSE IF o.min_length.val >= o.max_length.val
        THEN InvalidBoundsError(o.min_length.val, o.max_length.val)
    ELSE Ok(Bounds(o.min_length.val, o.max_length.val))

\* Opt::length_bounds
length_bounds(o) ==
    IF ~o.min_length.some /\ ~o.max_length.some
        THEN Ok(Bounds(DEFAULT_MIN_LENGTH, USIZE_MAX))
    ELSE IF o.min_length.some /\ ~o.max_length.some
        THEN Ok(Bounds(o.min_length.val, USIZE_MAX))
    ELSE IF ~o.min_length.some /\ o.max_length.some
        THEN Ok(Bounds(Min(DEFAULT_MIN_LENGTH, o.max_length.val), o.max_length.val))
    ELSE IF o.min_length.val > o.max_length.val
        THEN InvalidBoundsError(o.min_length.val, o.max_length.val)
    ELSE Ok(Bounds(o.min_length.val, o.max_length.val))

\* word_length_bounds with the default max not raised to a larger min
word_length_bounds_FixedMax(o) ==
    IF ~o.min_word.some /\ ~o.max_word.some
        THEN Ok(Bounds(DEFAULT_MIN_WORD, DEFAULT_MAX_WORD))
    ELSE IF o.min_word.some /\ ~o.max_word.some
        THEN Ok(Bounds(o.min_word.val, DEFAULT_MAX_WORD))
    ELSE IF ~o.min_word.some /\ o.max_word.some
        THEN Ok(Bounds(Min(DEFAULT_MIN_WORD, o.max_word.val), o.max_word.val))
    ELSE IF o.min_word.val > o.max_word.val
        THEN InvalidBoundsError(o.min_word.val, o.max_word.val)
    ELSE Ok(Bounds(o.min_word.val, o.max_word.val))

\* Opt::word_length_bounds
word_length_bounds(o) ==
    IF ~o.min_word.some /\ ~o.max_word.some
        THEN Ok(Bounds(DEFAULT_MIN_WORD, DEFAULT_MAX_WORD))
    ELSE IF o.min_word.some /\ ~o.max_word.some
        THEN Ok(Bounds(o.min_word.val, Max(o.min_word.val, DEFAULT_MAX_WORD)))
    ELSE IF ~o.min_word.some /\ o.max_word.some
        THEN Ok(Bounds(Min(DEFAULT_MIN_WORD, o.max_word.val), o.max_word.val))
    ELSE IF o.min_word.val > o.max_word.val
        THEN InvalidBoundsError(o.min_word.val, o.max_word.val)
    ELSE Ok(Bounds(o.min_word.val, o.max_word.val))

\* Opt::should_append_numeral
should_append_numeral(o) == ~o.no_append_numeral

\* the built-in symbol set  !"#$%&'()*+,-./\:;<=>?@[]^_`{|}~
DefaultSymbols ==
    <<33, 34, 35, 36, 37, 38, 39, 40, 41, 42, 43, 44, 45, 46, 47, 92,
      58, 59, 60, 61, 62, 63, 64, 91, 93, 94, 95, 96, 123, 124, 125, 126>>

\* Opt::append_symbol
append_symbol(o) ==
    IF o.append_symbol THEN Some(DefaultSymbols)
    ELSE IF o.symbol_set.some THEN Some(o.symbol_set.val)
    ELSE None

\* Opt::top_words
top_words(o) == IF o.top_words.some THEN o.top_words.val ELSE USIZE_MAX

\* NewlineBehavior::should_print_newline; tty is atty::is(Stdout)
should_print_newline(behavior, tty) ==
    CASE behavior = "never" -> FALSE
      [] behavior = "always" -> TRUE
      [] OTHER -> tty

----------------------------------------------------------------------------
(* src/wordlists.rs                                                        *)

StaticStorage(list) == [kind |-> "Static", list |-> list]
RuntimeStorage(blob) == [kind |-> "Runtime", blob |-> blob]

NotEmpty(line) == line # <<>>
NotComment(line) == ~(line # <<>> /\ line[1] = 35)

\* WordlistStorage::as_wordlist followed by Wordlist::as_slice
as_wordlist(storage) ==
    IF storage.kind = "Static" THEN storage.list
    ELSE LET lines == StrLines(storage.blob)
             trimmed == [i \in DOMAIN lines |-> Trim(lines[i])]
         IN SelectSeq(SelectSeq(trimmed, NotEmpty), NotComment)

----------------------------------------------------------------------------
(* src/password.rs                                                         *)

PasswordRules(wl, n, numeral, symbol) ==
    [wordlist |-> wl, num_words |-> n,
     append_numeral |-> numeral, append_symbol |-> symbol]

Password(words, numeral, symbol) ==
    [words |-> words, numeral |-> numeral, symbol |-> symbol]

Injective(f) == \A i, j \in DOMAIN f : f[i] = f[j] => i = j

\* rand's SliceRandom::choose_multiple: min(amount, len) elements at
\* distinct positions of the slice, in any order
choose_multiple(slice, amount) ==
    LET n == Min(amount, Len(slice))
    IN {[i \in 1..n |-> slice[idx[i]]] :
            idx \in {f \in [1..n -> DOMAIN slice] : Injective(f)}}

\* PasswordRules::gen_words: every outcome of the draw
gen_words(rules) == choose_multiple(rules.wordlist, rules.num_words)

\* PasswordRules::gen_symbol: chars().choose(rng) picks one position of the
\* set, and nothing when the set is empty
gen_symbol(rules) ==
    IF ~rules.append_symbol.some THEN {None}
    ELSE IF rules.append_symbol.val = <<>> THEN {None}
    ELSE {Some(rules.append_symbol.val[i]) : i \in DOMAIN rules.append_symbol.val}

\* gen_numeral with an inclusive upper end: 0..=10
gen_numeral_Inclusive(rules) ==
    IF rules.append_numeral THEN {Some(n) : n \in 0..NUMERAL_HIGH}
    ELSE {None}

\* PasswordRules::gen_numeral
gen_numeral(rules) ==
    IF rules.append_numeral THEN {Some(n) : n \in 0..(NUMERAL_HIGH - 1)}
    ELSE {None}

\* PasswordRules::gen_password: every password one call can return
gen_password(rules) ==
    {Password(w, n, s) :
        w \in gen_words(rules), n \in gen_numeral(rules), s \in gen_symbol(rules)}

\* impl Len for Password
PasswordLen(p) ==
    SumSeq([i \in DOMAIN p.words |-> StrLen(p.words[i])])
    + (IF p.numeral.some THEN 1 ELSE 0)
    + (IF p.symbol.some THEN len_utf8(p.symbol.val) ELSE 0)

\* impl Display for Password: the bytes written
PasswordFmt(p) ==
    Concat([i \in DOMAIN p.words |-> StrBytes(p.words[i])])
    \o (IF p.numeral.some THEN FmtU8(p.numeral.val) ELSE <<>>)
    \o (IF p.symbol.some THEN EncodeUtf8(p.symbol.val) ELSE <<>>)

Returned(args) == [panicked |-> FALSE, log2_of |-> args]
Panicked == [panicked |-> TRUE]

\* PasswordRules::words_entropy: the sum of log2(len - i) for i in
\* 0..num_words; checked_sub(i).expect(..) panics when i > len
words_entropy(rules) ==
    IF \E i \in 0..(rules.num_words - 1) : i > Len(rules.wordlist)
    THEN Panicked
    ELSE Returned([i \in 1..rules.num_words |-> Len(rules.wordlist) - (i - 1)])

\* PasswordRules::numeral_entropy: log2(10) or 0
numeral_entropy(rules) ==
    IF rules.append_numeral THEN Returned(<<10>>) ELSE Returned(<<>>)

\* PasswordRules::symbol_entropy: log2(chars().count()) or 0
symbol_entropy(rules) ==
    IF ~rules.append_symbol.some THEN Returned(<<>>)
    ELSE Returned(<<Len(rules.append_symbol.val)>>)

\* adjusted_entropy: log2(success_size) - log2(sample_size)
adjusted_entropy(sample_size, success) ==
    [plus_log2_of |-> success, minus_log2_of |-> sample_size]

----------------------------------------------------------------------------
(* Inputs                                                                  *)

Word_ab == <<97, 98>>           \* "ab"
Word_cde == <<99, 100, 101>>    \* "cde"
Word_de == <<100, 101>>         \* "de"
Word_e_acute == <<233>>         \* one two-byte character

\* pieces of text a wordlist read from stdin is made of: the line "ab",
\* and a comment line, an empty line and the line " cde " with blanks
\* around the word
StdinChunks ==
    {Word_ab,
     <<35>> \o Word_ab \o <<10, 10, 32>> \o Word_cde \o <<32>>}

\* the text read from stdin: every piece ends with '\n'
Blob(chunks) == Concat([i \in DOMAIN chunks |-> Append(chunks[i], 10)])

\* a wordlist compiled into the binary
StaticWordlist == <<Word_ab, Word_cde, Word_de>>

Storages ==
    {RuntimeStorage(Blob(ls)) : ls \in SeqsUpTo(StdinChunks, MaxChunks)}
    \cup {StaticStorage(StaticWordlist)}

\* the command line with every option left at its default
DefaultOpt ==
    [word_count |-> 4, max_length |-> None, min_length |-> None,
     append_numeral |-> FALSE, no_append_numeral |-> FALSE,
     append_symbol |-> FALSE, no_append_symbol |-> FALSE,
     symbol_set |-> None, min_word |-> None, max_word |-> None,
     list_wordlists |-> FALSE, print_wordlist |-> FALSE,
     print_filtered_wordlist |-> FALSE, sample_size |-> 100000,
     top_words |-> None, entropy_estimate |-> FALSE, show_count |-> FALSE,
     verbose |-> FALSE, newline |-> "never", gen_completions |-> None]

\* the command lines of the generation runs
RunOpts ==
    {[DefaultOpt EXCEPT
        !.word_count = wc, !.min_word = Some(mnw), !.max_word = mxw,
        !.top_words = tw, !.min_length = Some(mnl), !.max_length = mxl,
        !.sample_size = ss, !.no_append_numeral = nn, !.symbol_set = sy,
        !.verbose = rep[1], !.entropy_estimate = rep[2]] :
        wc \in 0..MaxWordCount, mnw \in {1, 3}, mxw \in {None, Some(2)},
        tw \in {None, Some(1)}, mnl \in {2, 5}, mxl \in {None, Some(4)},
        ss \in 0..MaxSampleSize, nn \in BOOLEAN,
        sy \in {None, Some(<<233>>)},
        rep \in {<<FALSE, FALSE>>, <<TRUE, FALSE>>, <<FALSE, TRUE>>}}

----------------------------------------------------------------------------
(* src/main.rs: run                                                        *)

Init ==
    /\ opts \in RunOpts
    /\ wordlist_storage \in Storages
    /\ pc = "start"
    /\ wordlist = <<>>
    /\ word_bounds = None
    /\ filtered_wordlist = <<>>
    /\ password_rules = None
    /\ password_bounds = None
    /\ drawn = 0
    /\ lens = <<>>
    /\ final_password = None
    /\ counted = 0
    /\ success_size = None
    /\ entropy = None
    /\ resolved = None
    /\ stdout = <<>>
    /\ exit_code = None

\* take_has_next letting one candidate too many through
take_has_next_OneMore(n, sample_size) == n <= sample_size

\* Take::next of take(opts.sample_size): another candidate is pulled from
\* the stream only while fewer than sample_size have been
take_has_next(n, sample_size) == n < sample_size

\* wants_entropy looking at --verbose alone
wants_entropy_VerboseOnly(o) == o.verbose

\* run, line 396: the counting pass and the entropy report are wanted
wants_entropy(o) == o.verbose \/ o.entropy_estimate

\* success_count leaving out the password already taken
success_count_RestOnly(rest) == rest

\* run, line 397: success_size = 1 + password_stream.count()
success_count(rest) == 1 + rest

\* writeln!(stdout, "{}", word) for every word
PrintWords(words) == Concat([i \in DOMAIN words |-> Append(StrBytes(words[i]), 10)])

\* run, lines 305-351: the early terminations and the wordlist
LoadWordlist ==
    /\ pc = "start"
    /\ IF opts.gen_completions.some \/ opts.list_wordlists
       THEN /\ pc' = "done"
            /\ exit_code' = Some(0)
            /\ UNCHANGED <<wordlist, stdout>>
       ELSE /\ wordlist' = as_wordlist(wordlist_storage)
            /\ IF opts.print_wordlist
               THEN /\ stdout' = PrintWords(wordlist')
                    /\ exit_code' = Some(0)
                    /\ pc' = "done"
               ELSE /\ pc' = "filter"
                    /\ UNCHANGED <<stdout, exit_code>>
    /\ UNCHANGED <<opts, wordlist_storage, word_bounds, filtered_wordlist,
                   password_rules, password_bounds, drawn, lens,
                   final_password, counted, success_size, entropy, resolved>>

\* FilterWords cutting the wordlist to the top words before filtering
FilterWords_TakeFirst(wl, bounds, top) ==
    SelectSeq(Take(wl, top), LAMBDA w : check_len_is_ok(bounds, StrLen(w)))

\* wordlist.iter().filter(word_bounds.check_len).take(opts.top_words())
FilterWords(wl, bounds, top) ==
    Take(SelectSeq(wl, LAMBDA w : check_len_is_ok(bounds, StrLen(w))), top)

\* run, lines 353-374: the word bounds and the filtered wordlist
FilterWordlist ==
    /\ pc = "filter"
    /\ LET r == word_length_bounds(opts)
       IN IF ~r.ok
          THEN /\ exit_code' = Some(1)
               /\ pc' = "done"
               /\ UNCHANGED <<word_bounds, filtered_wordlist, stdout>>
          ELSE /\ word_bounds' = Some(r.bounds)
               /\ IF opts.print_filtered_wordlist
                  THEN /\ stdout' = PrintWords(FilterWords(wordlist, r.bounds, top_words(opts)))
                       /\ exit_code' = Some(0)
                       /\ pc' = "done"
                       /\ UNCHANGED filtered_wordlist
                  ELSE /\ filtered_wordlist' = FilterWords(wordlist, r.bounds, top_words(opts))
                       /\ pc' = "rules"
                       /\ UNCHANGED <<stdout, exit_code>>
    /\ UNCHANGED <<opts, wordlist_storage, wordlist, password_rules,
                   password_bounds, drawn, lens, final_password, counted,
                   success_size, entropy, resolved>>

\* run, lines 375-384: the rules and the password bounds
BuildRules ==
    /\ pc = "rules"
    /\ password_rules' = Some(PasswordRules(filtered_wordlist, opts.word_count,
                                should_append_numeral(opts), append_symbol(opts)))
    /\ LET r == length_bounds(opts)
       IN IF ~r.ok
          THEN /\ exit_code' = Some(1)
               /\ pc' = "done"
               /\ UNCHANGED password_bounds
          ELSE /\ password_bounds' = Some(r.bounds)
               /\ pc' = "next"
               /\ UNCHANGED exit_code
    /\ UNCHANGED <<opts, wordlist_storage, wordlist, word_bounds,
                   filtered_wordlist, drawn, lens, final_password, counted,
                   success_size, entropy, resolved, stdout>>

\* run, lines 386-394: password_stream.next() pulls one candidate through
\* take(sample_size) and filter(check_len); the first one that passes is
\* final_password
DrawCandidate ==
    /\ pc = "next"
    /\ take_has_next(drawn, opts.sample_size)
    /\ \E p \in gen_password(password_rules.val) :
        /\ drawn' = drawn + 1
        /\ lens' = Append(lens, PasswordLen(p))
        /\ IF check_len_is_ok(password_bounds.val, PasswordLen(p))
           THEN /\ final_password' = Some(p)
                /\ pc' = IF wants_entropy(opts) THEN "count" ELSE "print"
           ELSE UNCHANGED <<final_password, pc>>
    /\ UNCHANGED <<opts, wordlist_storage, wordlist, word_bounds,
                   filtered_wordlist, password_rules, password_bounds,
                   counted, success_size, entropy, resolved, stdout, exit_code>>

\* run, lines 391-394: take(sample_size) is used up without a success
BudgetExhausted ==
    /\ pc = "next"
    /\ ~take_has_next(drawn, opts.sample_size)
    /\ exit_code' = Some(1)
    /\ pc' = "done"
    /\ UNCHANGED <<opts, wordlist_storage, wordlist, word_bounds,
                   filtered_wordlist, password_rules, password_bounds, drawn,
                   lens, final_password, counted, success_size, entropy,
                   resolved, stdout>>

\* run, line 397: password_stream.count() pulls one more candidate
CountCandidate ==
    /\ pc = "count"
    /\ take_has_next(drawn, opts.sample_size)
    /\ \E p \in gen_password(password_rules.val) :
        /\ drawn' = drawn + 1
        /\ lens' = Append(lens, PasswordLen(p))
        /\ counted' = IF check_len_is_ok(password_bounds.val, PasswordLen(p))
                      THEN counted + 1 ELSE counted
    /\ UNCHANGED <<opts, wordlist_storage, pc, wordlist, word_bounds,
                   filtered_wordlist, password_rules, password_bounds,
                   final_password, success_size, entropy, resolved, stdout,
                   exit_code>>

\* run, lines 397-446: the stream is used up; success_size and the entropy
\* figures; a panic of words_entropy ends the process with code 101
EntropyEstimate ==
    /\ pc = "count"
    /\ ~take_has_next(drawn, opts.sample_size)
    /\ success_size' = Some(success_count(counted))
    /\ IF words_entropy(password_rules.val).panicked
       THEN /\ entropy' = Some([words |-> words_entropy(password_rules.val)])
            /\ exit_code' = Some(101)
            /\ pc' = "done"
       ELSE /\ entropy' = Some([words |-> words_entropy(password_rules.val),
                                numeral |-> numeral_entropy(password_rules.val),
                                symbol |-> symbol_entropy(password_rules.val),
                                adjustment |-> adjusted_entropy(opts.sample_size, success_count(counted))])
            /\ pc' = "print"
            /\ UNCHANGED exit_code
    /\ UNCHANGED <<opts, wordlist_storage, wordlist, word_bounds,
                   filtered_wordlist, password_rules, password_bounds, drawn,
                   lens, final_password, counted, resolved, stdout>>

\* run, lines 448-458: the password is written
PrintPassword ==
    /\ pc = "print"
    /\ \E tty \in BOOLEAN :
        stdout' = PasswordFmt(final_password.val)
                  \o (IF should_print_newline(opts.newline, tty) THEN <<10>> ELSE <<>>)
    /\ exit_code' = Some(0)
    /\ pc' = "done"
    /\ UNCHANGED <<opts, wordlist_storage, wordlist, word_bounds,
                   filtered_wordlist, password_rules, password_bounds, drawn,
                   lens, final_password, counted, success_size, entropy,
                   resolved>>

Next ==
    \/ LoadWordlist
    \/ FilterWordlist
    \/ BuildRules
    \/ DrawCandidate
    \/ BudgetExhausted
    \/ CountCandidate
    \/ EntropyEstimate
    \/ PrintPassword

Spec == Init /\ [][Next]_vars

----------------------------------------------------------------------------
(* The bounds resolvers on their own: Opt::length_bounds and               *)
(* Opt::word_length_bounds applied to every pair of optional min and max   *)

OptBound == {None} \cup {Some(n) : n \in 0..MaxBound} \cup {Some(USIZE_MAX)}

InitBounds ==
    /\ \E mn \in OptBound, mx \in OptBound :
        opts = [DefaultOpt EXCEPT !.min_length = mn, !.max_length = mx,
                                  !.min_word = mn, !.max_word = mx]
    /\ wordlist_storage = StaticStorage(StaticWordlist)
    /\ pc = "resolve"
    /\ wordlist = <<>>
    /\ word_bounds = None
    /\ filtered_wordlist = <<>>
    /\ password_rules = None
    /\ password_bounds = None
    /\ drawn = 0
    /\ lens = <<>>
    /\ final_password = None
    /\ counted = 0
    /\ success_size = None
    /\ entropy = None
    /\ resolved = None
    /\ stdout = <<>>
    /\ exit_code = None

\* opts.length_bounds()
ResolveLength ==
    /\ pc = "resolve"
    /\ resolved' = Some([resolver |-> "length_bounds", result |-> length_bounds(opts)])
    /\ pc' = "resolved"
    /\ UNCHANGED <<opts, wordlist_storage, wordlist, word_bounds,
                   filtered_wordlist, password_rules, password_bounds, drawn,
                   lens, final_password, counted, success_size, entropy,
                   stdout, exit_code>>

\* opts.word_length_bounds()
ResolveWord ==
    /\ pc = "resolve"
    /\ resolved' = Some([resolver |-> "word_length_bounds",
                         result |-> word_length_bounds(opts)])
    /\ pc' = "resolved"
    /\ UNCHANGED <<opts, wordlist_storage, wordlist, word_bounds,
                   filtered_wordlist, password_rules, password_bounds, drawn,
                   lens, final_password, counted, success_size, entropy,
                   stdout, exit_code>>

\* bounds.display() formatted, as run does with the resolved bounds in its
\* verbose report (lines 413 and 439)
DisplayResolved ==
    /\ pc = "resolved"
    /\ resolved.val.result.ok
    /\ resolved' = Some([resolver |-> resolved.val.resolver,
                         result |-> resolved.val.result,
                         display |-> DisplayBoundsFmt(resolved.val.result.bounds)])
    /\ pc' = "displayed"
    /\ UNCHANGED <<opts, wordlist_storage, wordlist, word_bounds,
                   filtered_wordlist, password_rules, password_bounds, drawn,
                   lens, final_password, counted, success_size, entropy,
                   stdout, exit_code>>

NextBounds == ResolveLength \/ ResolveWord \/ DisplayResolved

SpecBounds == InitBounds /\ [][NextBounds]_vars

----------------------------------------------------------------------------
(* The rule engine on its own: the functions of PasswordRules applied to   *)
(* every rules value over small pools and symbol sets                      *)

EngineWords == {Word_ab, Word_cde, Word_e_acute}

\* no set, the empty set, "!", "!!", two- and three-byte characters, a
\* four-byte character
EngineSymbolSets ==
    {None, Some(<<>>), Some(<<33>>), Some(<<33, 33>>), Some(<<233, 8364>>),
     Some(<<33, 128512, 33>>)}

EngineRules ==
    {PasswordRules(wl, n, num, sym) :
        wl \in SeqsUpTo(EngineWords, MaxPool), n \in 0..MaxNumWords,
        num \in BOOLEAN, sym \in EngineSymbolSets}

InitRules ==
    /\ opts = DefaultOpt
    /\ wordlist_storage = StaticStorage(StaticWordlist)
    /\ pc = "engine"
    /\ wordlist = <<>>
    /\ word_bounds = None
    /\ filtered_wordlist = <<>>
    /\ password_rules \in {Some(r) : r \in EngineRules}
    /\ password_bounds = None
    /\ drawn = 0
    /\ lens = <<>>
    /\ final_password = None
    /\ counted = 0
    /\ success_size = None
    /\ entropy = None
    /\ resolved = None
    /\ stdout = <<>>
    /\ exit_code = None

\* password_rules.gen_password(rng), and the password formatted
GenPassword ==
    /\ pc = "engine"
    /\ \E p \in gen_password(password_rules.val) :
        /\ final_password' = Some(p)
        /\ stdout' = PasswordFmt(p)
    /\ pc' = "generated"
    /\ UNCHANGED <<opts, wordlist_storage, wordlist, word_bounds,
                   filtered_wordlist, password_rules, password_bounds, drawn,
                   lens, counted, success_size, entropy, resolved, exit_code>>

\* password_rules.words_entropy()
WordsEntropy ==
    /\ pc = "engine"
    /\ entropy' = Some([fn |-> "words_entropy", result |-> words_entropy(password_rules.val)])
    /\ pc' = "computed"
    /\ UNCHANGED <<opts, wordlist_storage, wordlist, word_bounds,
                   filtered_wordlist, password_rules, password_bounds, drawn,
                   lens, final_password, counted, success_size, resolved,
                   stdout, exit_code>>

\* password_rules.numeral_entropy()
NumeralEntropy ==
    /\ pc = "engine"
    /\ entropy' = Some([fn |-> "numeral_entropy", result |-> numeral_entropy(password_rules.val)])
    /\ pc' = "computed"
    /\ UNCHANGED <<opts, wordlist_storage, wordlist, word_bounds,
                   filtered_wordlist, password_rules, password_bounds, drawn,
                   lens, final_password, counted, success_size, resolved,
                   stdout, exit_code>>

\* password_rules.symbol_entropy()
SymbolEntropy ==
    /\ pc = "engine"
    /\ entropy' = Some([fn |-> "symbol_entropy", result |-> symbol_entropy(password_rules.val)])
    /\ pc' = "computed"
    /\ UNCHANGED <<opts, wordlist_storage, wordlist, word_bounds,
                   filtered_wordlist, password_rules, password_bounds, drawn,
                   lens, final_password, counted, success_size, resolved,
                   stdout, exit_code>>

NextRules == GenPassword \/ WordsEntropy \/ NumeralEntropy \/ SymbolEntropy

SpecRules == InitRules /\ [][NextRules]_vars

----------------------------------------------------------------------------
(* Properties of the generation run (Spec)                                 *)

\* min <= L <= max, both ends inclusive
InBounds(b, L) == b.min <= L /\ L <= b.max

\* the run has written a password and ended with success
Emitted == pc = "done" /\ exit_code = Some(0) /\ final_password.some

\* the position of the first candidate, in draw order, within the bounds
IsFirstSuccess(ls, b, i) ==
    /\ i \in 1..Len(ls)
    /\ InBounds(b, ls[i])
    /\ \A j \in 1..(i - 1) : ~InBounds(b, ls[j])

\* C1: when the run emits a password, what it writes is the first candidate
\* in draw order, among the first sample_size draws, whose byte length L
\* has min <= L <= max; no earlier candidate is within the bounds; once
\* chosen, the password is never replaced, whatever the counting pass draws.
C1_FirstSuccessIsEmitted ==
    /\ [](Emitted =>
            /\ stdout = PasswordFmt(final_password.val)
            /\ \E i \in 1..Len(lens) :
                /\ i <= opts.sample_size
                /\ lens[i] = PasswordLen(final_password.val)
                /\ IsFirstSuccess(lens, password_bounds.val, i))
    /\ [][(~final_password.some /\ final_password'.some) =>
            /\ drawn' = Len(lens')
            /\ lens'[drawn'] = PasswordLen(final_password'.val)
            /\ IsFirstSuccess(lens', password_bounds.val, drawn')]_vars
    /\ [][final_password.some => final_password' = final_password]_vars

\* C1 witness: the first draw was rejected, the second accepted, the
\* counting pass drew a third candidate of another length, and the second
\* was emitted
C1_Witness ==
    /\ Emitted
    /\ Len(lens) = 3
    /\ ~InBounds(password_bounds.val, lens[1])
    /\ InBounds(password_bounds.val, lens[2])
    /\ lens[3] # lens[2]
    /\ stdout = PasswordFmt(final_password.val)
    /\ Len(stdout) = lens[2]

\* C2: if none of the first sample_size candidates is within the overall
\* bounds (sample_size = 0 included), the run ends in the budget-exhaustion
\* failure with a non-zero result, and nothing is ever written to stdout.
C2_ExhaustionFails ==
    (password_bounds.some /\ \A i \in 1..Len(lens) : ~InBounds(password_bounds.val, lens[i]))
    => /\ stdout = <<>>
       /\ ~final_password.some
       /\ pc \in {"next", "done"}
       /\ pc = "done" => /\ exit_code.some /\ exit_code.val # 0
                         /\ Len(lens) = opts.sample_size

\* C2 witness: two candidates were drawn, both outside the bounds, and the
\* run has failed
C2_Witness ==
    /\ pc = "done"
    /\ password_bounds.some
    /\ opts.sample_size = 2
    /\ Len(lens) = 2
    /\ \A i \in 1..2 : ~InBounds(password_bounds.val, lens[i])
    /\ exit_code = Some(1)
    /\ stdout = <<>>

\* C3 (as claimed): whenever num_words exceeds the size of the filtered
\* pool, no candidate is ever generated and no password is emitted.
C3_NoSamplingWhenTooFewWords ==
    (password_rules.some /\ password_rules.val.num_words > Len(password_rules.val.wordlist))
    => (drawn = 0 /\ ~final_password.some /\ stdout = <<>>)

\* the words of a password are pairwise different strings
PairwiseDifferent(words) ==
    \A i, j \in DOMAIN words : i # j => words[i] # words[j]

\* C4 (as claimed): with num_words <= pool size, the words of a password
\* returned by gen_password are pairwise different strings.
C4_WordsPairwiseDifferent ==
    (final_password.some /\ password_rules.val.num_words <= Len(password_rules.val.wordlist))
    => PairwiseDifferent(final_password.val.words)

\* C5 (as claimed): on every successful run the number of candidates
\* generated is exactly sample_size.
C5_AlwaysDrawsWholeBudget ==
    Emitted => drawn = opts.sample_size

\* C5 (amended): on a successful run that reports entropy (--verbose or
\* --entropy-estimate) the number of candidates generated is exactly
\* sample_size; on any other successful run generation stops with the first
\* success, so the number generated is the position of that candidate.
C5_DrawsWholeBudgetForEntropy ==
    Emitted =>
        /\ drawn = Len(lens)
        /\ drawn <= opts.sample_size
        /\ (opts.verbose \/ opts.entropy_estimate) => drawn = opts.sample_size
        /\ ~(opts.verbose \/ opts.entropy_estimate) =>
                IsFirstSuccess(lens, password_bounds.val, drawn)

\* C5 witness: the first candidate succeeded, entropy was asked for, the
\* rest of a budget of three was drawn and the password emitted
C5_Witness ==
    /\ Emitted
    /\ opts.entropy_estimate
    /\ opts.sample_size = 3
    /\ InBounds(password_bounds.val, lens[1])
    /\ drawn = 3
    /\ success_size.some

----------------------------------------------------------------------------
(* Properties of the bounds resolvers (SpecBounds)                         *)

\* the min and max the user gave to the resolver that ran
GivenMin == IF resolved.val.resolver = "length_bounds" THEN opts.min_length ELSE opts.min_word
GivenMax == IF resolved.val.resolver = "length_bounds" THEN opts.max_length ELSE opts.max_word

\* the priority table for at most one supplied end
PriorityTable(mn, mx, default_min) ==
    IF ~mn.some /\ ~mx.some THEN Bounds(default_min, USIZE_MAX)
    ELSE IF mn.some THEN Bounds(mn.val, USIZE_MAX)
    ELSE Bounds(IF default_min <= mx.val THEN default_min ELSE mx.val, mx.val)

\* C6 (as claimed): with at most one end supplied, both resolvers follow the
\* table: both absent gives (default_min, unbounded), only min gives
\* (min, unbounded), only max gives (min(default_min, max), max), where
\* default_min is 24 for length_bounds and 4 for word_length_bounds.
C6_BothResolversFollowTable ==
    (resolved.some /\ ~(GivenMin.some /\ GivenMax.some))
    => resolved.val.result =
        Ok(PriorityTable(GivenMin, GivenMax,
                         IF resolved.val.resolver = "length_bounds" THEN 24 ELSE 4))

\* C6 (amended): with at most one end supplied, length_bounds follows the
\* table with default_min 24 and an unbounded default max; word_length_bounds
\* has the default max 8 instead of unbounded: both absent gives (4, 8), only
\* min gives (min, max(min, 8)), only max gives (min(4, max), max).
C6_ResolversWithOneEnd ==
    (resolved.some /\ ~(GivenMin.some /\ GivenMax.some))
    => IF resolved.val.resolver = "length_bounds"
       THEN resolved.val.result = Ok(PriorityTable(GivenMin, GivenMax, 24))
       ELSE resolved.val.result =
            Ok(IF ~GivenMin.some /\ ~GivenMax.some THEN Bounds(4, 8)
               ELSE IF GivenMin.some
                    THEN Bounds(GivenMin.val, IF GivenMin.val > 8 THEN GivenMin.val ELSE 8)
                    ELSE Bounds(IF GivenMax.val < 4 THEN GivenMax.val ELSE 4, GivenMax.val))

\* C6 witness: word_length_bounds given only a min above the default max
C6_Witness ==
    /\ resolved.some
    /\ resolved.val.resolver = "word_length_bounds"
    /\ opts.min_word = Some(9)
    /\ ~opts.max_word.some
    /\ resolved.val.result = Ok(Bounds(9, 9))

\* C7: when both min and max are supplied, a resolver returns exactly
\* (min, max) if min <= max, and if min > max an error carrying the given
\* min and the given max and no Bounds value; every Bounds value a resolver
\* returns has min <= max.
C7_BothEndsGiven ==
    resolved.some =>
        /\ (GivenMin.some /\ GivenMax.some /\ GivenMin.val <= GivenMax.val)
            => resolved.val.result = Ok(Bounds(GivenMin.val, GivenMax.val))
        /\ (GivenMin.some /\ GivenMax.some /\ GivenMin.val > GivenMax.val)
            => /\ ~resolved.val.result.ok
               /\ resolved.val.result.min = GivenMin.val
               /\ resolved.val.result.max = GivenMax.val
               /\ "bounds" \notin DOMAIN resolved.val.result
        /\ resolved.val.result.ok
            => resolved.val.result.bounds.min <= resolved.val.result.bounds.max

\* C7 witness: length_bounds given min 7 and max 3 has returned the error
C7_Witness ==
    /\ resolved.some
    /\ resolved.val.resolver = "length_bounds"
    /\ opts.min_length = Some(7)
    /\ opts.max_length = Some(3)
    /\ ~resolved.val.result.ok
    /\ resolved.val.result.min = 7
    /\ resolved.val.result.max = 3

----------------------------------------------------------------------------
(* Properties of the rule engine (SpecRules)                               *)

\* C8: for every password the engine generates, the byte length of its
\* rendered text equals its own len(), and len() is the sum of the byte
\* lengths of the words, plus 1 if a numeral is present, plus the UTF-8 byte
\* length of the symbol if present.
C8_RenderedLengthIsLen ==
    pc = "generated" =>
        LET p == final_password.val
        IN /\ Len(stdout) = PasswordLen(p)
           /\ PasswordLen(p) =
                SumSeq([i \in DOMAIN p.words |-> Len(StrBytes(p.words[i]))])
                + (IF p.numeral.some THEN 1 ELSE 0)
                + (IF p.symbol.some THEN Len(EncodeUtf8(p.symbol.val)) ELSE 0)

\* C8 witness: a password of a two-byte word and a three-byte word, a
\* numeral and a four-byte symbol, rendered in 10 bytes
C8_Witness ==
    /\ pc = "generated"
    /\ final_password.val.words = <<Word_e_acute, Word_cde>>
    /\ final_password.val.numeral = Some(7)
    /\ final_password.val.symbol = Some(128512)
    /\ Len(stdout) = 10

\* C9 (as claimed): symbol_entropy is 0 without a symbol set, and otherwise
\* log2 of the number of distinct characters of the set.
C9_SymbolEntropyCountsDistinct ==
    (entropy.some /\ entropy.val.fn = "symbol_entropy")
    => entropy.val.result =
        (IF ~password_rules.val.append_symbol.some THEN Returned(<<>>)
         ELSE Returned(<<Cardinality(Range(password_rules.val.append_symbol.val))>>))

\* C10 (as claimed): words_entropy panics exactly when num_words exceeds the
\* pool size, and returns a value otherwise.
C10_WordsEntropyPanicsIffTooMany ==
    (entropy.some /\ entropy.val.fn = "words_entropy")
    => (entropy.val.result.panicked
        <=> password_rules.val.num_words > Len(password_rules.val.wordlist))

----------------------------------------------------------------------------
(* Further properties of the generation run (Spec)                         *)

\* the positions of the drawn candidates whose length is within the bounds
Successes == {i \in 1..Len(lens) : InBounds(password_bounds.val, lens[i])}

\* C11: on every run that computes the entropy adjustment, success_size is
\* the number of candidates among the sample_size draws whose length is
\* within the overall bounds, so 1 <= success_size <= sample_size, and
\* success_size = sample_size when every candidate is within the bounds; the
\* adjustment is log2(success_size) - log2(sample_size).
C11_SuccessSizeCountsSuccesses ==
    success_size.some =>
        /\ Len(lens) = opts.sample_size
        /\ success_size.val = Cardinality(Successes)
        /\ 1 <= success_size.val
        /\ success_size.val <= opts.sample_size
        /\ (\A i \in 1..Len(lens) : InBounds(password_bounds.val, lens[i]))
            => success_size.val = opts.sample_size
        /\ "adjustment" \in DOMAIN entropy.val
            => /\ entropy.val.adjustment.plus_log2_of = Cardinality(Successes)
               /\ entropy.val.adjustment.minus_log2_of = opts.sample_size

\* C11 witness: of three candidates the first was rejected and the other
\* two were within the bounds; the adjustment is log2(2) - log2(3)
C11_Witness ==
    /\ success_size = Some(2)
    /\ opts.sample_size = 3
    /\ ~InBounds(password_bounds.val, lens[1])
    /\ InBounds(password_bounds.val, lens[2])
    /\ InBounds(password_bounds.val, lens[3])
    /\ "adjustment" \in DOMAIN entropy.val
    /\ entropy.val.adjustment = adjusted_entropy(3, 2)

----------------------------------------------------------------------------
(* The option accessors on their own: Opt::append_symbol and               *)
(* Opt::should_append_numeral applied to every combination of their flags  *)

AccessorOpts ==
    {[DefaultOpt EXCEPT
        !.append_symbol = as, !.no_append_symbol = nas, !.symbol_set = sy,
        !.append_numeral = an, !.no_append_numeral = nan] :
        as \in BOOLEAN, nas \in BOOLEAN, sy \in EngineSymbolSets,
        an \in BOOLEAN, nan \in BOOLEAN}

InitAccessors ==
    /\ opts \in AccessorOpts
    /\ wordlist_storage = StaticStorage(StaticWordlist)
    /\ pc = "accessor"
    /\ wordlist = <<>>
    /\ word_bounds = None
    /\ filtered_wordlist = <<>>
    /\ password_rules = None
    /\ password_bounds = None
    /\ drawn = 0
    /\ lens = <<>>
    /\ final_password = None
    /\ counted = 0
    /\ success_size = None
    /\ entropy = None
    /\ resolved = None
    /\ stdout = <<>>
    /\ exit_code = None

\* opts.append_symbol()
AppendSymbol ==
    /\ pc = "accessor"
    /\ resolved' = Some([accessor |-> "append_symbol", result |-> append_symbol(opts)])
    /\ pc' = "accessed"
    /\ UNCHANGED <<opts, wordlist_storage, wordlist, word_bounds,
                   filtered_wordlist, password_rules, password_bounds, drawn,
                   lens, final_password, counted, success_size, entropy,
                   stdout, exit_code>>

\* opts.should_append_numeral()
ShouldAppendNumeral ==
    /\ pc = "accessor"
    /\ resolved' = Some([accessor |-> "should_append_numeral",
                         result |-> should_append_numeral(opts)])
    /\ pc' = "accessed"
    /\ UNCHANGED <<opts, wordlist_storage, wordlist, word_bounds,
                   filtered_wordlist, password_rules, password_bounds, drawn,
                   lens, final_password, counted, success_size, entropy,
                   stdout, exit_code>>

NextAccessors == AppendSymbol \/ ShouldAppendNumeral

SpecAccessors == InitAccessors /\ [][NextAccessors]_vars

\* C12 (as claimed): whenever a symbol set is supplied, Opt::append_symbol
\* returns exactly that set; the built-in set is returned only when
\* appending is requested and no set is supplied, and None only when neither
\* is given.
C12_SuppliedSymbolSetIsUsed ==
    (resolved.some /\ resolved.val.accessor = "append_symbol")
    => resolved.val.result =
        (IF opts.symbol_set.some THEN Some(opts.symbol_set.val)
         ELSE IF opts.append_symbol THEN Some(DefaultSymbols)
         ELSE None)

----------------------------------------------------------------------------
(* Properties of the bounds display (SpecBounds)                           *)

\* the cases of the phrase other than "at least" and "between"
DisplayCommonCases(b, d) ==
    /\ b.min = b.max => d = Phrase("exactly {}", <<b.min>>)
    /\ (b.min \in {0, 1} /\ b.max = USIZE_MAX)
        => d = Phrase("any number of", <<>>)
    /\ (b.min \in {0, 1} /\ b.max # USIZE_MAX /\ b.min # b.max)
        => d = Phrase("up to {}", <<b.max>>)

\* C13 (as claimed): the phrase is "exactly N" when min = max; "any number
\* of" for [0, unbounded) and [1, unbounded); "up to N" when min is 0 or 1,
\* max is finite and min # max; "at least N" when max is unbounded and
\* min > 1; "between N and M" in every other case.
C13_DisplayPhrases ==
    pc = "displayed" =>
        LET b == resolved.val.result.bounds
            d == resolved.val.display
        IN /\ DisplayCommonCases(b, d)
           /\ (b.max = USIZE_MAX /\ b.min > 1)
                => d = Phrase("at least {}", <<b.min>>)
           /\ (b.min # b.max /\ b.min \notin {0, 1} /\ b.max # USIZE_MAX)
                => d = Phrase("between {} and {}", <<b.min, b.max>>)

\* C13 (amended): as claimed, except that "at least N" is the phrase when
\* max is unbounded, min > 1 and min # max: for min = max = unbounded the
\* phrase is "exactly N" like for every other min = max.
C13_DisplayPhrasesExactlyFirst ==
    pc = "displayed" =>
        LET b == resolved.val.result.bounds
            d == resolved.val.display
        IN /\ DisplayCommonCases(b, d)
           /\ (b.max = USIZE_MAX /\ b.min > 1 /\ b.min # b.max)
                => d = Phrase("at least {}", <<b.min>>)
           /\ (b.min # b.max /\ b.min \notin {0, 1} /\ b.max # USIZE_MAX)
                => d = Phrase("between {} and {}", <<b.min, b.max>>)

\* C13 witness: word_length_bounds given only the largest min has resolved
\* to min = max = unbounded, displayed as "exactly N"
C13_Witness ==
    /\ pc = "displayed"
    /\ resolved.val.resolver = "word_length_bounds"
    /\ opts.min_word = Some(USIZE_MAX)
    /\ ~opts.max_word.some
    /\ resolved.val.result.bounds = Bounds(USIZE_MAX, USIZE_MAX)
    /\ resolved.val.display = Phrase("exactly {}", <<USIZE_MAX>>)

----------------------------------------------------------------------------
(* Properties of the word pool (Spec)                                      *)

\* the positions of the wordlist whose word has a byte length within b
WithinWordBounds(b) ==
    {i \in DOMAIN wordlist : InBounds(b, Len(StrBytes(wordlist[i])))}

\* the k-th smallest position of the set I
KthOf(I, k) == CHOOSE i \in I : Cardinality({j \in I : j < i}) = k - 1

\* C14: the word pool handed to the rule engine is the first top_words
\* entries (all of them when fewer exist) of the sub-sequence of the wordlist
\* whose byte length is within the word bounds, in wordlist order: the
\* filter comes before the cut, every pool word is within the word bounds,
\* and the pool is never larger than top_words.
C14_PoolIsTopOfFiltered ==
    password_rules.some =>
        LET pool == password_rules.val.wordlist
            I == WithinWordBounds(word_bounds.val)
            top == IF opts.top_words.some THEN opts.top_words.val ELSE Cardinality(I)
        IN /\ pool = filtered_wordlist
           /\ Len(pool) = (IF Cardinality(I) <= top THEN Cardinality(I) ELSE top)
           /\ \A k \in 1..Len(pool) : pool[k] = wordlist[KthOf(I, k)]
           /\ \A k \in 1..Len(pool) :
                InBounds(word_bounds.val, Len(StrBytes(pool[k])))
           /\ opts.top_words.some => Len(pool) <= opts.top_words.val

\* C14 witness: of the wordlist "ab", "cde" with word bounds (3, 8) and
\* top_words 1 the pool is "cde": the first word is filtered out before
\* the cut
C14_Witness ==
    /\ password_rules.some
    /\ wordlist = <<Word_ab, Word_cde>>
    /\ word_bounds = Some(Bounds(3, 8))
    /\ opts.top_words = Some(1)
    /\ password_rules.val.wordlist = <<Word_cde>>

----------------------------------------------------------------------------
(* Properties of the end of the sampling loop (Spec)                       *)

\* the run ended in the budget-exhaustion failure: every one of the
\* sample_size candidates was drawn, none was chosen, and the exit is 1
ExhaustionFailure ==
    /\ pc = "done"
    /\ exit_code = Some(1)
    /\ ~final_password.some
    /\ drawn = opts.sample_size

\* C15: the sampling loop is bounded by the sample budget: in every run
\* the number of candidates drawn never exceeds sample_size, and a run that
\* got as far as sampling ends either with an emitted password or with the
\* budget-exhaustion failure.
C15_SamplingEndsEmittedOrExhausted ==
    /\ drawn <= opts.sample_size
    /\ (pc = "done" /\ password_bounds.some) => (Emitted \/ ExhaustionFailure)

====
